---- MODULE Spec2Model ----
(***************************************************************************)
(* State migration zkTrie -> MPT of cmd/migration.                         *)
(*                                                                         *)
(* Two programs share one backing store:                                   *)
(*   - migrator.start (the follower binary): initial account migration,    *)
(*     then the state-diff follower loop with its migration-root           *)
(*     checkpoint;  specification Spec.                                    *)
(*   - migrate (the sealing binary): stateMigrator.migrateAccount followed *)
(*     by stateMigrator.migrateHeadAndGenesis;  specification SealSpec.    *)
(*                                                                         *)
(* A hash is modelled as a record [kind, of]: the hash function (Keccak    *)
(* MPT root, Poseidon zk key/root) applied to the content it commits to.   *)
(* Byte strings are sequences of 0..255, text is a sequence of ASCII codes.*)
(***************************************************************************)
EXTENDS Integers, Sequences, FiniteSets, TLC

\* ------------------------------------------------------------------ bounds
\* Number of the head header of the local database (header.Number).
HeadNumber == 1
\* Number of source-chain blocks after the local head.
NumBlocks == 2

MaxHead == HeadNumber + NumBlocks

\* ------------------------------------------------------ program constants
\* common.HashLength, the width common.BytesToHash pads or crops to.
HashLength == 32
\* common.AddressLength
AddressLength == 20

\* BedrockTransitionBlockExtraData = []byte("BEDROCK")
BedrockTransitionBlockExtraData == <<66, 69, 68, 82, 79, 67, 75>>
\* The longest extra-data migrateHeadAndGenesis accepts.
MaxExtraLength == 32
L2GenesisBlockGasLimit == 0
L2OutputOracleStartingTimestamp == 0
InitialBaseFee == 0

\* --------------------------------------------------------- byte strings

Max(a, b) == IF a >= b THEN a ELSE b

\* common.BytesToHash: crop from the left when longer than HashLength,
\* left-pad with zeroes when shorter.
BytesToHash(b) ==
    [i \in 1..HashLength |->
        IF i + Len(b) - HashLength >= 1 THEN b[i + Len(b) - HashLength] ELSE 0]

\* common.TrimLeftZeroes
TrimLeftZeroes(b) ==
    LET nz == {i \in 1..Len(b) : b[i] # 0}
    IN  IF nz = {} THEN <<>>
        ELSE LET first == CHOOSE i \in nz : \A j \in nz : i <= j
             IN  [i \in 1..(Len(b) - first + 1) |-> b[i + first - 1]]

\* rlp.EncodeToBytes of a byte string.
RlpEncodeBytes(b) ==
    IF Len(b) = 1 /\ b[1] < 128 THEN b
    ELSE IF Len(b) <= 55 THEN <<128 + Len(b)>> \o b
    ELSE <<184, Len(b)>> \o b

\* encodeToRlp
encodeToRlp(bytes) == RlpEncodeBytes(TrimLeftZeroes(BytesToHash(bytes)))

\* One hexadecimal digit as its ASCII code ('0'..'9' = 48..57, 'a'..'f' = 97..102).
HexChar(d) == IF d < 10 THEN 48 + d ELSE 87 + d

\* The value of an ASCII hexadecimal digit, -1 when it is none.
FromHexChar(c) ==
    IF c >= 48 /\ c <= 57 THEN c - 48
    ELSE IF c >= 97 /\ c <= 102 THEN c - 87
    ELSE IF c >= 65 /\ c <= 70 THEN c - 55
    ELSE -1

\* hexutil encoding of a byte string as the source node's JSON gives it: "0x" + digits.
HexEncode(b) ==
    [i \in 1..(2 * Len(b) + 2) |->
        IF i = 1 THEN 48
        ELSE IF i = 2 THEN 120
        ELSE IF i % 2 = 1 THEN HexChar(b[(i - 1) \div 2] \div 16)
        ELSE HexChar(b[(i - 2) \div 2] % 16)]

\* strings.TrimPrefix(s, "0x")
TrimPrefix0x(s) ==
    IF Len(s) >= 2 /\ s[1] = 48 /\ s[2] = 120 THEN SubSeq(s, 3, Len(s)) ELSE s

\* The bytes a "0x"-prefixed hex text denotes (common.FromHex on even-length text).
FromHex(s) ==
    LET t == TrimPrefix0x(s)
    IN  [i \in 1..(Len(t) \div 2) |-> 16 * FromHexChar(t[2 * i - 1]) + FromHexChar(t[2 * i])]

\* common.HexToHash
HexToHash(s) == BytesToHash(FromHex(s))

\* []byte(text): the bytes of a Go string are its characters' codes.
StringBytes(s) == s

RECURSIVE HexValue(_)
HexValue(t) ==
    IF Len(t) = 0 THEN 0
    ELSE 16 * HexValue(SubSeq(t, 1, Len(t) - 1)) + FromHexChar(t[Len(t)])

\* common.HexToAddress / common.BytesToAddress: crop or left-pad to AddressLength.
BytesToAddress(b) ==
    [i \in 1..AddressLength |->
        IF i + Len(b) - AddressLength >= 1 THEN b[i + Len(b) - AddressLength] ELSE 0]

HexToAddress(s) == BytesToAddress(FromHex(s))

\* new(big.Int).SetString(t, 16): ok is false on empty text or a non-hex character.
SetStringOk(t) == Len(t) > 0 /\ \A i \in 1..Len(t) : FromHexChar(t[i]) >= 0
SetStringVal(t) == HexValue(t)

\* A HashLength-byte word holding the big-endian bytes v.
Word(v) == BytesToHash(v)


\* ------------------------------------------------------------ hashes, tries

\* Keccak root of an MPT holding `content` (a function key -> value).
MptHash(content) == [kind |-> "mpt", of |-> content]

\* Poseidon secure hash of a pre-image (zk.MustNewSecureHash), also the key
\* hash trie.IteratorKeyToHash recovers from a leaf key.
ZkSecureHash(pre) == [kind |-> "zk", of |-> pre]

\* The empty function, built the way every trie content is built.
EmptyContent == [k \in {} |-> 0]

\* types.EmptyRootHash
EmptyRootHash == MptHash(EmptyContent)

\* types.GetEmptyRootHash(true): the root of the empty zkTrie.
EmptyZkRoot == [kind |-> "zkroot", of |-> EmptyContent]

\* types.EmptyCodeHash
EmptyCodeHash == "nocode"

\* f with key k bound to v (trie update).
Upd(f, k, v) == [x \in (DOMAIN f) \cup {k} |-> IF x = k THEN v ELSE f[x]]

\* f without key k.
Drop(f, k) == [x \in (DOMAIN f) \ {k} |-> f[x]]

\* Mutant of NewEmptyStateAccount: the empty account of a zkTrie (its code
\* hash is the Poseidon one).
NewEmptyStateAccountZk ==
    [Nonce |-> 0, Balance |-> 0, Root |-> [kind |-> "mpt", of |-> <<>>], CodeHash |-> "zknocode"]

\* types.NewEmptyStateAccount(false)
NewEmptyStateAccount ==
    [Nonce |-> 0, Balance |-> 0, Root |-> EmptyRootHash, CodeHash |-> EmptyCodeHash]

\* ------------------------------------------------------- the source chain

Addr1 == BytesToAddress(<<161>>)
Addr2 == BytesToAddress(<<162>>)
Addrs == {Addr1, Addr2}
\* The addresses as the tracer prints them.
Hex1 == HexEncode(Addr1)
Hex2 == HexEncode(Addr2)

Slot1 == Word(<<1>>)
Slot2 == Word(<<2>>)

\* Slot values of the chain, as HashLength-byte words.
ValDEAD == Word(<<222, 173>>)
ValBEEF == Word(<<190, 239>>)
ValFEED == Word(<<254, 237>>)

\* "0x1", "0x2": balances as the tracer prints them.
Hex0x1 == <<48, 120, 49>>
Hex0x2 == <<48, 120, 50>>

\* The state of the source chain before block HeadNumber: one contract with a
\* storage slot.  A raw account keeps its storage as slot -> word.
BaseState ==
    [a \in {Addr1} |->
        [Nonce |-> 0, Balance |-> 1, Storage |-> [s \in {Slot1} |-> ValDEAD],
         CodeHash |-> "code1"]]

\* Blocks as debug_traceBlockByNumber returns them in diff mode: a sequence of
\* transactions, each a map address -> post-state delta; a delta is a map
\* from JSON keys to JSON values.
BlkEmpty == <<>>

BlkBalance == << [a \in {Hex1} |-> ("balance" :> Hex0x2)] >>

BlkStorage ==
    << [a \in {Hex1} |->
          ("nonce" :> 1) @@ ("storage" :> [k \in {HexEncode(Slot1)} |-> HexEncode(ValFEED)])] >>

BlkTwoTx ==
    << [a \in {Hex1} |-> ("balance" :> Hex0x1)],
       [a \in {Hex1, Hex2} |->
          IF a = Hex1 THEN ("balance" :> Hex0x2) ELSE ("nonce" :> 1) @@ ("balance" :> Hex0x1)] >>

\* A contract creation: the delta carries a "code" key next to a storage write.
BlkCode ==
    << [a \in {Hex1, Hex2} |->
          IF a = Hex1 THEN ("storage" :> [k \in {HexEncode(Slot2)} |-> HexEncode(ValBEEF)])
          ELSE ("balance" :> Hex0x1) @@ ("code" :> "code2")] >>

Blocks == {BlkEmpty, BlkBalance, BlkStorage, BlkTwoTx, BlkCode}

BlockNumbers == HeadNumber..MaxHead

\* What the source chain itself does with a delta: the post-state values replace
\* the account's fields, a storage value being the word its hex text denotes.
RawApplyDelta(state, a, delta) ==
    LET acc0 == IF a \in DOMAIN state THEN state[a]
                ELSE [Nonce |-> 0, Balance |-> 0, Storage |-> EmptyContent,
                      CodeHash |-> EmptyCodeHash]
        acc1 == IF "balance" \in DOMAIN delta
                THEN [acc0 EXCEPT !.Balance = SetStringVal(TrimPrefix0x(delta["balance"]))]
                ELSE acc0
        acc2 == IF "nonce" \in DOMAIN delta
                THEN [acc1 EXCEPT !.Nonce = delta["nonce"]] ELSE acc1
        st   == IF "storage" \in DOMAIN delta THEN delta["storage"] ELSE EmptyContent
        acc3 == [acc2 EXCEPT !.Storage =
                    [s \in (DOMAIN acc2.Storage) \cup {HexToHash(k) : k \in DOMAIN st} |->
                        IF \E k \in DOMAIN st : HexToHash(k) = s
                        THEN FromHex(st[CHOOSE k \in DOMAIN st : HexToHash(k) = s])
                        ELSE acc2.Storage[s]]]
        acc4 == IF "code" \in DOMAIN delta
                THEN [acc3 EXCEPT !.CodeHash = delta["code"]] ELSE acc3
    IN  Upd(state, a, acc4)

RECURSIVE RawApplyTx(_, _)
RawApplyTx(state, tx) ==
    IF DOMAIN tx = {} THEN state
    ELSE LET a == CHOOSE x \in DOMAIN tx : TRUE
         IN  RawApplyTx(RawApplyDelta(state, HexToAddress(a), tx[a]), Drop(tx, a))

RECURSIVE RawApplyBlock(_, _)
RawApplyBlock(state, blk) ==
    IF blk = <<>> THEN state
    ELSE RawApplyBlock(RawApplyTx(state, Head(blk)), Tail(blk))

\* The MPT the target chain keeps for a raw state: every slot value is
\* RLP(trimLeadingZeros(value)).
TrueStorageRoot(storage) ==
    MptHash([s \in DOMAIN storage |-> RlpEncodeBytes(TrimLeftZeroes(storage[s]))])

TrueMpt(state) ==
    [a \in DOMAIN state |->
        [Nonce |-> state[a].Nonce, Balance |-> state[a].Balance,
         Root |-> TrueStorageRoot(state[a].Storage), CodeHash |-> state[a].CodeHash]]


\* ------------------------------------------------------------------ state

VARIABLES
    pc,         \* where the follower process is ("dead": panicked or killed)
    root,       \* start's root / applyNewStateTransition's root: <<>> is nil
    mpt,        \* content of the account MPT being built or updated
    leaves,     \* the nodes the account zkTrie iterator has still to deliver
    txs,        \* what debug_traceBlockByNumber has still to deliver
    disk,       \* MPT roots whose nodes mptdb.Commit has written to the store
    ckpt,       \* bytes stored under "migration-root" (<<>>: none)
    head,       \* the source node's head block number
    chain,      \* the source chain: block number -> traced block
    preimages,  \* the trie database's preimage index: key hash -> bytes
    bootCkpt,   \* what "migration-root" held when the running process started
    migrated,   \* whether the running process ran migrateAccount
    db,         \* the chain data of the store: headers, markers, chain config
    accountRoot, \* migrateAccount's accountRoot, handed to migrateHeadAndGenesis
    bedrock,    \* migrateHeadAndGenesis's bedrockHeader (<<>>: not built)
    res,        \* the MigrationResult returned (<<>>: none)
    hist,       \* history of the sealing runs, for the properties only
    zkNodes,    \* the keys at which the store holds bytes that decode as a zkTrie node
    guarded     \* the tries checkHashCollision has let through, for the properties only

\* The follower's own variables, and the sealing program's.
fvars == <<root, txs, ckpt, head, bootCkpt, migrated>>
svars == <<db, accountRoot, bedrock, res, hist>>

\* The store's zkTrie nodes and the record of the guard's runs.
gvars == <<zkNodes, guarded>>

vars == <<pc, mpt, leaves, disk, chain, preimages, fvars, svars, gvars>>

\* ------------------------------------------------------------ checkpoint

\* json.Marshal(root) for a migrationRoot.
jsonMarshal(r) == <<"json", r.Hash, r.Number>>

\* Mutants of jsonUnmarshal: the stored number is lost / the bytes never parse.
jsonUnmarshalHead(b) ==
    IF Len(b) = 3 /\ b[1] = "json" THEN <<[Hash |-> b[2], Number |-> HeadNumber]>> ELSE <<>>
jsonUnmarshalNil(b) == <<>>

\* json.Unmarshal(jsonBytes, &root): root stays nil when the bytes do not parse.
jsonUnmarshal(b) ==
    IF Len(b) = 3 /\ b[1] = "json" THEN <<[Hash |-> b[2], Number |-> b[3]]>> ELSE <<>>

\* --------------------------------------------------------- the local store

\* Root of a zkTrie holding `content`.
ZkRoot(content) == [kind |-> "zkroot", of |-> content]

\* (*types.Header).Hash
HeaderHash(h) == [kind |-> "header", of |-> h]

\* common.Hash{}
ZeroHash == [kind |-> "zero", of |-> EmptyContent]

\* The extra-data of a header the legacy chain produced.
LegacyExtra == <<75, 82, 79, 77, 65>>

\* The legacy chain's header of block n; the head commits to rootHash and
\* carries extra.
RECURSIVE LegacyHeader(_, _, _)
LegacyHeader(n, rootHash, extra) ==
    [ParentHash  |-> IF n = 0 THEN ZeroHash
                     ELSE HeaderHash(LegacyHeader(n - 1, EmptyZkRoot, LegacyExtra)),
     UncleHash   |-> "EmptyUncleHash",
     Coinbase    |-> "legacy",
     Root        |-> rootHash,
     TxHash      |-> EmptyRootHash,
     ReceiptHash |-> EmptyRootHash,
     Bloom       |-> "empty",
     Difficulty  |-> 1,
     Number      |-> n,
     GasLimit    |-> 30,
     GasUsed     |-> 0,
     Time        |-> 100 + n,
     Extra       |-> extra,
     MixDigest   |-> ZeroHash,
     Nonce       |-> 0,
     BaseFee     |-> 1]

\* The chain config of the legacy chain (nil fields are <<>>).
LegacyConfig ==
    [LondonBlock                   |-> <<0>>,
     ArrowGlacierBlock             |-> <<>>,
     GrayGlacierBlock              |-> <<>>,
     MergeNetsplitBlock            |-> <<>>,
     TerminalTotalDifficulty       |-> <<>>,
     TerminalTotalDifficultyPassed |-> FALSE,
     BedrockBlock                  |-> <<>>,
     RegolithTime                  |-> <<>>,
     Kroma    |-> <<[EIP1559Denominator |-> 50, EIP1559Elasticity |-> 6,
                     EIP1559DenominatorCanyon |-> 250]>>,
     Optimism |-> <<>>]

\* The chain data of a legacy database whose head commits to rootHash.
LegacyDb(rootHash, extra) ==
    LET hdr(n) == IF n = HeadNumber THEN LegacyHeader(n, rootHash, extra)
                  ELSE LegacyHeader(n, EmptyZkRoot, LegacyExtra)
        hashes == {HeaderHash(hdr(n)) : n \in 0..HeadNumber}
        tip    == HeaderHash(hdr(HeadNumber))
    IN  [headHeader |-> tip,
         headBlock  |-> tip,
         headFast   |-> tip,
         finalized  |-> tip,
         headers    |-> [h \in hashes |-> h.of],
         body       |-> [h \in hashes |-> [Transactions |-> <<>>, Uncles |-> <<>>]],
         receipts   |-> [h \in hashes |-> <<>>],
         canonical  |-> [n \in 0..HeadNumber |-> HeaderHash(hdr(n))],
         td         |-> [h \in hashes |-> h.of.Number + 1],
         config     |-> [h \in {HeaderHash(hdr(0))} |-> LegacyConfig]]

\* rawdb.ReadCanonicalHash (the zero hash when the number has no entry)
ReadCanonicalHash(d, n) == IF n \in DOMAIN d.canonical THEN d.canonical[n] ELSE ZeroHash

\* rawdb.ReadChainConfig: nil (<<>>) when nothing is stored at the hash.
ReadChainConfig(d, h) == IF h \in DOMAIN d.config THEN <<d.config[h]>> ELSE <<>>

\* rawdb.ReadHeadHeader
ReadHeadHeader == db.headers[db.headHeader]

\* The content of the zkTrie the head header commits to (header.Root).
ZkState == ReadHeadHeader.Root.of

\* The nodes a node iterator over the zkTrie holding `content` visits: one
\* leaf per key, with its key hash, and the interior nodes above them (the
\* root stands for them; LeafKey is not read on an interior node).
ZkIterNodes(content) ==
    {[leaf |-> TRUE, key |-> ZkSecureHash(a)] : a \in DOMAIN content}
    \cup (IF DOMAIN content = {} THEN {}
          ELSE {[leaf |-> FALSE, key |-> ZkSecureHash(<<>>)]})

\* The key hashes of the leaves the iterator visits.
ZkLeafKeys(content) == {n.key : n \in {x \in ZkIterNodes(content) : x.leaf}}

\* The address migrateStorage tolerates missing slot pre-images for.
DevnetAddress == BytesToAddress(<<66, 0, 0, 0, 0, 0, 0, 0, 0, 0, 0, 0, 0, 0, 0, 0, 0, 0, 0, 112>>)

\* A source state that also holds the predeploy at DevnetAddress, with one
\* storage slot written after genesis.
DevnetState ==
    [a \in {Addr1, DevnetAddress} |->
        IF a = Addr1 THEN BaseState[Addr1]
        ELSE [Nonce |-> 0, Balance |-> 0, Storage |-> [s \in {Slot2} |-> ValBEEF],
              CodeHash |-> "code70"]]

\* The genesis allocation maps readGenesisAlloc builds: key hash -> pre-image.
GenesisAccount == [h \in {ZkSecureHash(Addr1), ZkSecureHash(DevnetAddress)} |-> h.of]
GenesisStorage == [h \in {ZkSecureHash(Slot1)} |-> Slot1]

\* An index that resolves every key the chain can create.
FullIndex ==
    [h \in {ZkSecureHash(Addr2), ZkSecureHash(Slot2)} |-> h.of]

\* (*trie.Database).Preimage: empty when the index has no entry.
zkdbPreimage(keyHash) == IF keyHash \in DOMAIN preimages THEN preimages[keyHash] ELSE <<>>

\* Mutant of readPreimage: only the preimage index is consulted.
readPreimageIndexOnly(keyHash) ==
    IF ZkSecureHash(zkdbPreimage(keyHash)) = keyHash
    THEN [ok |-> TRUE, pre |-> zkdbPreimage(keyHash)]
    ELSE [ok |-> FALSE, pre |-> <<>>]

\* Mutant of readPreimage: the index entry is returned without re-hashing it.
readPreimageUnverified(keyHash) ==
    IF keyHash \in DOMAIN GenesisAccount
    THEN [ok |-> TRUE, pre |-> GenesisAccount[keyHash]]
    ELSE IF keyHash \in DOMAIN GenesisStorage
    THEN [ok |-> TRUE, pre |-> GenesisStorage[keyHash]]
    ELSE IF zkdbPreimage(keyHash) # <<>>
    THEN [ok |-> TRUE, pre |-> zkdbPreimage(keyHash)]
    ELSE [ok |-> FALSE, pre |-> <<>>]

\* migrator.readPreimage
readPreimage(keyHash) ==
    IF keyHash \in DOMAIN GenesisAccount
    THEN [ok |-> TRUE, pre |-> GenesisAccount[keyHash]]
    ELSE IF keyHash \in DOMAIN GenesisStorage
    THEN [ok |-> TRUE, pre |-> GenesisStorage[keyHash]]
    ELSE IF ZkSecureHash(zkdbPreimage(keyHash)) = keyHash
    THEN [ok |-> TRUE, pre |-> zkdbPreimage(keyHash)]
    ELSE [ok |-> FALSE, pre |-> <<>>]

\* migrator.commit: the root of the trie; its nodes go to the store.
commit(trie) == MptHash(trie)
\* Mutant of committed: mptdb.Commit is left out, nothing reaches the store.
committedNowhere(d, trie) == d
committed(d, trie) == d \cup {MptHash(trie)}

\* Mutant of gate: the gate never opens.
gateClosed(number, headBlockNumber) == FALSE

\* Mutant of gate: the head block itself is not traced.
gateStrict(number, headBlockNumber) == number < headBlockNumber

\* applyNewStateTransition: the gate on the head returned by eth_blockNumber.
gate(number, headBlockNumber) == number <= headBlockNumber

\* Mutant of advance: the increment is forgotten.
advanceStuck(r, hash) == [Hash |-> hash, Number |-> r.Number]

\* applyNewStateTransition: root.Hash = m.commit(mpt); root.Number += 1.
advance(r, hash) == [Hash |-> hash, Number |-> r.Number + 1]

\* migrator.newMPT: a trie opens at the empty root or at a root in the store.
canOpen(d, h) == h = EmptyRootHash \/ h \in d

\* Mutant of UpdateAccount: the trie keeps only the account put last.
UpdateAccountAlone(content, address, acc) == [x \in {address} |-> acc]

\* Mutant of UpdateAccount: the account put into the trie is lost.
UpdateAccountLost(content, address, acc) == content

\* (*trie.StateTrie).UpdateAccount
UpdateAccount(content, address, acc) == Upd(content, address, acc)

\* The nodes a node iterator over the MPT holding `content` visits: the leaves,
\* one per key, and above them the interior nodes, of which the root is one.
MptNodes(content) ==
    IF DOMAIN content = {} THEN {}
    ELSE {[leaf |-> FALSE, hash |-> MptHash(content)]}
         \cup {[leaf |-> TRUE, hash |-> [kind |-> "mptleaf", of |-> [x \in {k} |-> content[k]]]] :
                  k \in DOMAIN content}

\* migrator.checkHashCollision: TRUE when it panics.
checkHashCollision(t) ==
    \E n \in MptNodes(t) : n.leaf /\ n.hash \in zkNodes

\* The zkTrie nodes left in the store once the nodes of the tries with the
\* roots `roots` have been written over their keys.
overwritten(z, roots) == z \ UNION {{n.hash : n \in MptNodes(h.of)} : h \in roots}

\* migrator.migrateStorage: ok is false when it panics; wrote tells whether a
\* storage trie was committed, checked holds the trie the guard let through.
migrateStorage(address, zkStorageRoot) ==
    IF zkStorageRoot = EmptyZkRoot
    THEN [ok |-> TRUE, root |-> EmptyRootHash, wrote |-> FALSE, checked |-> {}]
    ELSE LET st      == zkStorageRoot.of
             keys    == ZkLeafKeys(st)
             missing == {k \in keys : ~readPreimage(k).ok}
             found   == keys \ missing
             slots   == {readPreimage(k).pre : k \in found}
             content == [p \in slots |->
                            encodeToRlp(st[(CHOOSE k \in found : readPreimage(k).pre = p).of])]
         IN  IF missing # {} /\ address # DevnetAddress
             THEN [ok |-> FALSE, root |-> EmptyRootHash, wrote |-> FALSE, checked |-> {}]
             ELSE IF checkHashCollision(content)
             THEN [ok |-> FALSE, root |-> EmptyRootHash, wrote |-> FALSE, checked |-> {}]
             ELSE [ok |-> TRUE, root |-> commit(content), wrote |-> TRUE,
                   checked |-> {content}]

\* types.NewStateAccount(leafBlob, true): the account a zkTrie leaf holds.
NewStateAccount(blob) ==
    [Nonce |-> blob.Nonce, Balance |-> blob.Balance, Root |-> ZkRoot(blob.Storage),
     CodeHash |-> blob.CodeHash]

\* Mutant of leftover: keys updateAccount does not know are not looked at.
leftoverIgnored(nextState) == {}

\* updateAccount: what is left of nextState after the deletes of "balance",
\* "nonce" and "storage"; len(nextState) > 0 panics.
leftover(nextState) == (DOMAIN nextState) \ {"balance", "nonce", "storage"}

\* migrator.updateAccount on the account `account` (<<>>: nil).  ok is false
\* when it panics; wrote holds the storage roots committed before it returned
\* or panicked.
updateAccount(d, account, nextState, stateRoot) ==
    LET acc0 == IF account = <<>> THEN NewEmptyStateAccount ELSE account[1]
        balOk == "balance" \in DOMAIN nextState
                    => SetStringOk(TrimPrefix0x(nextState["balance"]))
        acc1 == IF "balance" \in DOMAIN nextState /\ balOk
                THEN [acc0 EXCEPT !.Balance = SetStringVal(TrimPrefix0x(nextState["balance"]))]
                ELSE acc0
        acc2 == IF "nonce" \in DOMAIN nextState
                THEN [acc1 EXCEPT !.Nonce = nextState["nonce"]] ELSE acc1
        hasSt == "storage" \in DOMAIN nextState
        stOk == hasSt => canOpen(d, acc2.Root)
        storage == IF hasSt THEN nextState["storage"] ELSE EmptyContent
        old  == acc2.Root.of
        new  == [s \in (DOMAIN old) \cup {HexToHash(k) : k \in DOMAIN storage} |->
                    IF \E k \in DOMAIN storage : HexToHash(k) = s
                    THEN encodeToRlp(StringBytes(
                            storage[CHOOSE k \in DOMAIN storage : HexToHash(k) = s]))
                    ELSE old[s]]
        acc3 == IF hasSt /\ stOk THEN [acc2 EXCEPT !.Root = commit(new)] ELSE acc2
        rest == leftover(nextState)
    IN  [ok      |-> balOk /\ stOk /\ rest = {},
         account |-> acc3,
         wrote   |-> IF balOk /\ hasSt /\ stOk THEN {commit(new)} ELSE {}]

\* migrateAccount's loop body on the leaf with key hash k: ok is false when it
\* panics; wrote holds the storage roots committed.
migrateLeaf(content, k) ==
    LET pre     == readPreimage(k)
        address == BytesToAddress(pre.pre)
        acc     == NewStateAccount(ZkState[k.of])
        st      == migrateStorage(address, acc.Root)
    IN  [ok    |-> pre.ok /\ st.ok,
         mpt   |-> UpdateAccount(content, address, [acc EXCEPT !.Root = st.root]),
         wrote |-> IF pre.ok /\ st.ok /\ st.wrote THEN {st.root} ELSE {},
         checked |-> IF pre.ok THEN st.checked ELSE {}]

\* The callback applyNewStateTransition hands to debug_traceBlockByNumber, on
\* the address text a and its delta: GetAccount, updateAccount, UpdateAccount.
callback(content, d, a, state, stateRoot) ==
    LET address == HexToAddress(a)
        prior   == IF address \in DOMAIN content THEN <<content[address]>> ELSE <<>>
        r       == updateAccount(d, prior, state, stateRoot)
    IN  [ok    |-> r.ok,
         mpt   |-> UpdateAccount(content, address, r.account),
         wrote |-> r.wrote]

\* The deltas a traced block delivers: <<i, a>> is the delta of the address
\* text a in transaction i.
Deltas(ts) == {<<i, a>> : i \in 1..Len(ts), a \in UNION {DOMAIN ts[j] : j \in 1..Len(ts)}}
                 \cap UNION {{<<i, a>> : a \in DOMAIN ts[i]} : i \in 1..Len(ts)}

\* The orders in which the deltas of `ds` can be handed to the callback.
Orders(ds) ==
    {o \in [1..Cardinality(ds) -> ds] : \A i, j \in 1..Cardinality(ds) : o[i] = o[j] => i = j}

\* applyNewStateTransition's callback applied to the deltas of ts in the order
\* o, from the trie `content` and the store d, then m.commit: ok is false when
\* a callback panics.
RECURSIVE applyInOrder(_, _, _, _, _)
applyInOrder(content, d, ts, o, stateRoot) ==
    IF o = <<>> THEN [ok |-> TRUE, root |-> commit(content)]
    ELSE LET r == callback(content, d, o[1][2], ts[o[1][1]][o[1][2]], stateRoot)
         IN  IF ~r.ok THEN [ok |-> FALSE, root |-> commit(content)]
             ELSE applyInOrder(r.mpt, d \cup r.wrote, ts, Tail(o), stateRoot)

\* Drop the transactions that have nothing left to deliver.
RECURSIVE Remaining(_)
Remaining(ts) ==
    IF ts = <<>> THEN <<>>
    ELSE IF DOMAIN Head(ts) = {} THEN Remaining(Tail(ts))
    ELSE ts


\* ---- the run that is never interrupted, as a function of the chain

RECURSIVE RunMigrate(_, _)
RunMigrate(content, ks) ==
    IF ks = {} THEN [ok |-> TRUE, mpt |-> content]
    ELSE LET k == CHOOSE x \in ks : TRUE
             r == migrateLeaf(content, k)
         IN  IF r.ok THEN RunMigrate(r.mpt, ks \ {k}) ELSE [ok |-> FALSE, mpt |-> content]

RECURSIVE RunTx(_, _, _)
RunTx(content, tx, stateRoot) ==
    IF DOMAIN tx = {} THEN [ok |-> TRUE, mpt |-> content]
    ELSE LET a == CHOOSE x \in DOMAIN tx : TRUE
             r == callback(content, {content[x].Root : x \in DOMAIN content}, a, tx[a], stateRoot)
         IN  IF r.ok THEN RunTx(r.mpt, Drop(tx, a), stateRoot)
             ELSE [ok |-> FALSE, mpt |-> content]

RECURSIVE RunBlock(_, _, _)
RunBlock(content, blk, stateRoot) ==
    IF blk = <<>> THEN [ok |-> TRUE, mpt |-> content]
    ELSE LET r == RunTx(content, Head(blk), stateRoot)
         IN  IF r.ok THEN RunBlock(r.mpt, Tail(blk), stateRoot)
             ELSE [ok |-> FALSE, mpt |-> content]

\* What a run that is never interrupted stores after the checkpoint c (<<>>:
\* nothing stored yet): ok is false when that run panics before storing.
RunNext(c) ==
    IF c = <<>>
    THEN LET r == RunMigrate(EmptyContent, ZkLeafKeys(ZkState))
         IN  [ok |-> r.ok, stored |-> <<"json", MptHash(r.mpt), HeadNumber>>]
    ELSE LET r == RunBlock(c[2].of, chain[c[3]], c[2])
         IN  [ok |-> r.ok, stored |-> <<"json", MptHash(r.mpt), c[3] + 1>>]

\* Nothing has run yet.
NoHistory == [prev |-> <<>>, after |-> <<>>, built |-> FALSE, pipeline |-> FALSE,
              sealed |-> FALSE, lastRoot |-> <<>>, base |-> <<>>, before |-> <<>>]

\* ---------------------------------------------------- the follower process

\* The process is gone: a panic (must, must1, must2, panic) or a kill.
Halt ==
    /\ pc' = "dead"
    /\ root' = <<>>
    /\ mpt' = EmptyContent
    /\ leaves' = {}
    /\ txs' = <<>>

\* start, up to the decision on root == nil (and, when nil, the opening of
\* migrateAccount: the head header and the iterator over header.Root).
Start ==
    /\ pc = "boot"
    /\ root' = jsonUnmarshal(ckpt)
    /\ bootCkpt' = ckpt
    /\ migrated' = FALSE
    /\ IF jsonUnmarshal(ckpt) = <<>>
       THEN /\ pc' = "migrate"
            /\ leaves' = ZkIterNodes(ZkState)
       ELSE /\ pc' = "loop"
            /\ leaves' = {}
    /\ mpt' = EmptyContent
    /\ UNCHANGED <<txs, disk, ckpt, head, chain, preimages>>
    /\ UNCHANGED svars
    /\ UNCHANGED gvars

\* start when the Get of migration-root fails: the error is dropped
\* (`jsonBytes, _ :=`), jsonBytes is empty and root stays nil.
StartReadFails ==
    /\ pc = "boot"
    /\ root' = <<>>
    /\ bootCkpt' = ckpt
    /\ migrated' = FALSE
    /\ pc' = "migrate"
    /\ leaves' = ZkIterNodes(ZkState)
    /\ mpt' = EmptyContent
    /\ UNCHANGED <<txs, disk, ckpt, head, chain, preimages>>
    /\ UNCHANGED svars
    /\ UNCHANGED gvars

\* migrateAccount: one leaf of the account zkTrie.
MigrateLeaf ==
    /\ pc = "migrate"
    /\ \E it \in leaves :
        IF ~it.leaf
        THEN /\ leaves' = leaves \ {it}
             /\ UNCHANGED <<pc, root, mpt, txs, disk, zkNodes, guarded>>
        ELSE \E r \in {migrateLeaf(mpt, it.key)} :
                /\ disk' = disk \cup r.wrote
                /\ zkNodes' = overwritten(zkNodes, r.wrote)
                /\ guarded' = guarded \cup r.checked
                /\ IF r.ok
                   THEN /\ mpt' = r.mpt
                        /\ leaves' = leaves \ {it}
                        /\ UNCHANGED <<pc, root, txs>>
                   ELSE Halt
    /\ UNCHANGED <<ckpt, head, chain, preimages, bootCkpt, migrated>>
    /\ UNCHANGED svars

\* migrateAccount: after the walk, commit and return.
MigrateCommit ==
    /\ pc = "migrate"
    /\ leaves = {}
    /\ IF checkHashCollision(mpt)
       THEN /\ Halt
            /\ UNCHANGED <<disk, migrated, zkNodes, guarded>>
       ELSE /\ guarded' = guarded \cup {mpt}
            /\ disk' = committed(disk, mpt)
            /\ zkNodes' = overwritten(zkNodes, committed(disk, mpt) \ disk)
            /\ root' = <<[Hash |-> commit(mpt), Number |-> ReadHeadHeader.Number]>>
            /\ migrated' = TRUE
            /\ pc' = "put_initial"
            /\ UNCHANGED <<mpt, leaves, txs>>
    /\ UNCHANGED <<ckpt, head, chain, preimages, bootCkpt>>
    /\ UNCHANGED svars

\* start: the Put after migrateAccount.
PutInitial ==
    /\ pc = "put_initial"
    /\ ckpt' = jsonMarshal(root[1])
    /\ pc' = "loop"
    /\ UNCHANGED <<root, mpt, leaves, txs, disk, head, chain, preimages, bootCkpt, migrated>>
    /\ UNCHANGED svars
    /\ UNCHANGED gvars

\* applyNewStateTransition: eth_blockNumber, the gate, and newMPT.
Poll ==
    /\ pc = "loop"
    /\ \/ /\ gate(root[1].Number, head)
          /\ IF canOpen(disk, root[1].Hash)
             THEN /\ pc' = "trace"
                  /\ mpt' = root[1].Hash.of
                  /\ UNCHANGED <<root, leaves, txs>>
             ELSE Halt
       \/ /\ ~gate(root[1].Number, head)
          /\ pc' = "sleep"
          /\ UNCHANGED <<root, mpt, leaves, txs>>
       \/ Halt      \* the RPC call fails: must1 panics
    /\ UNCHANGED <<disk, ckpt, head, chain, preimages, bootCkpt, migrated>>
    /\ UNCHANGED svars
    /\ UNCHANGED gvars

\* debug_traceBlockByNumber: the request and the decoding of its answer.
Trace ==
    /\ pc = "trace"
    /\ \/ /\ txs' = Remaining(chain[root[1].Number])
          /\ pc' = "apply"
          /\ UNCHANGED <<root, mpt, leaves>>
       \/ Halt      \* the request fails: must1 panics
    /\ UNCHANGED <<disk, ckpt, head, chain, preimages, bootCkpt, migrated>>
    /\ UNCHANGED svars
    /\ UNCHANGED gvars

\* The callback of debug_traceBlockByNumber on one address of the current
\* transaction (a Go map is ranged over in any order).
ApplyDelta ==
    /\ pc = "apply"
    /\ txs # <<>>
    /\ \E a \in DOMAIN Head(txs) :
        \E r \in {callback(mpt, disk, a, Head(txs)[a], root[1].Hash)} :
            /\ disk' = disk \cup r.wrote
            /\ zkNodes' = overwritten(zkNodes, r.wrote)
            /\ IF r.ok
               THEN /\ mpt' = r.mpt
                    /\ txs' = Remaining(<<Drop(Head(txs), a)>> \o Tail(txs))
                    /\ UNCHANGED <<pc, root, leaves>>
               ELSE Halt
    /\ UNCHANGED <<ckpt, head, chain, preimages, bootCkpt, migrated, guarded>>
    /\ UNCHANGED svars

\* applyNewStateTransition: commit and return the next root.
CommitBlock ==
    /\ pc = "apply"
    /\ txs = <<>>
    /\ disk' = committed(disk, mpt)
    /\ zkNodes' = overwritten(zkNodes, committed(disk, mpt) \ disk)
    /\ root' = <<advance(root[1], commit(mpt))>>
    /\ pc' = "put"
    /\ UNCHANGED <<mpt, leaves, txs, ckpt, head, chain, preimages, bootCkpt, migrated, guarded>>
    /\ UNCHANGED svars

\* start: the Put of nextRoot, and root = nextRoot.
PutCheckpoint ==
    /\ pc = "put"
    /\ ckpt' = jsonMarshal(root[1])
    /\ pc' = "loop"
    /\ UNCHANGED <<root, mpt, leaves, txs, disk, head, chain, preimages, bootCkpt, migrated>>
    /\ UNCHANGED svars
    /\ UNCHANGED gvars

\* start: time.Sleep(2 * time.Second) when applyNewStateTransition returned nil.
Sleep ==
    /\ pc = "sleep"
    /\ pc' = "loop"
    /\ UNCHANGED <<root, mpt, leaves, txs, disk, ckpt, head, chain, preimages, bootCkpt, migrated>>
    /\ UNCHANGED svars
    /\ UNCHANGED gvars

\* The process is killed.
Crash ==
    /\ pc \notin {"dead", "boot"}
    /\ Halt
    /\ UNCHANGED <<disk, ckpt, head, chain, preimages, bootCkpt, migrated>>
    /\ UNCHANGED svars
    /\ UNCHANGED gvars

\* The program is started again on the same store.
Restart ==
    /\ pc = "dead"
    /\ pc' = "boot"
    /\ UNCHANGED <<root, mpt, leaves, txs, disk, ckpt, head, chain, preimages, bootCkpt, migrated>>
    /\ UNCHANGED svars
    /\ UNCHANGED gvars

\* The source chain produces a block.
HeadGrows ==
    /\ head < MaxHead
    /\ head' = head + 1
    /\ UNCHANGED <<pc, root, mpt, leaves, txs, disk, ckpt, chain, preimages, bootCkpt, migrated>>
    /\ UNCHANGED svars
    /\ UNCHANGED gvars



\* ------------------------------------------------------ the sealing program

\* openZkIterator: the zkTrie opens only at the root of a zkTrie.
openZkIterator(h) == h.kind = "zkroot"

\* stateMigrator.readPreimage: ok is false when it panics.
stateReadPreimage(keyHash) ==
    IF keyHash \in DOMAIN GenesisAccount
    THEN [ok |-> TRUE, pre |-> GenesisAccount[keyHash]]
    ELSE IF keyHash \in DOMAIN GenesisStorage
    THEN [ok |-> TRUE, pre |-> GenesisStorage[keyHash]]
    ELSE IF ZkSecureHash(zkdbPreimage(keyHash)) = keyHash
    THEN [ok |-> TRUE, pre |-> zkdbPreimage(keyHash)]
    ELSE [ok |-> FALSE, pre |-> <<>>]

\* stateMigrator.migrateStorage: every leaf goes to UpdateStorage as the
\* iterator gives it.
stateMigrateStorage(address, zkStorageRoot) ==
    IF zkStorageRoot = EmptyZkRoot
    THEN [ok |-> TRUE, root |-> EmptyRootHash, wrote |-> FALSE]
    ELSE LET st      == zkStorageRoot.of
             keys    == ZkLeafKeys(st)
             missing == {k \in keys : ~stateReadPreimage(k).ok}
             found   == keys \ missing
             slots   == {stateReadPreimage(k).pre : k \in found}
             content == [p \in slots |->
                            st[(CHOOSE k \in found : stateReadPreimage(k).pre = p).of]]
         IN  IF missing # {}
             THEN [ok |-> FALSE, root |-> EmptyRootHash, wrote |-> FALSE]
             ELSE [ok |-> TRUE, root |-> commit(content), wrote |-> TRUE]

\* stateMigrator.migrateAccount's loop body on the leaf with key hash k.
stateMigrateLeaf(content, k) ==
    LET pre     == stateReadPreimage(k)
        address == BytesToAddress(pre.pre)
        acc     == NewStateAccount(ZkState[k.of])
        st      == stateMigrateStorage(address, acc.Root)
    IN  [ok    |-> pre.ok /\ st.ok,
         mpt   |-> UpdateAccount(content, address, [acc EXCEPT !.Root = st.root]),
         wrote |-> IF pre.ok /\ st.ok /\ st.wrote THEN {st.root} ELSE {}]

\* Mutant of isMigrated: the sentinel is never recognised.
isMigratedNever(header) == FALSE

\* migrateHeadAndGenesis: bytes.Equal(header.Extra, BedrockTransitionBlockExtraData)
isMigrated(header) == header.Extra = BedrockTransitionBlockExtraData

\* Mutant of bedrockHeader: the block takes the head's number and parent.
bedrockHeaderInPlace(header, newRoot) ==
    [header EXCEPT !.Root = newRoot, !.Extra = BedrockTransitionBlockExtraData]

\* migrateHeadAndGenesis: the header of the Bedrock transition block.
bedrockHeader(header, newRoot) ==
    [ParentHash  |-> HeaderHash(header),
     UncleHash   |-> "EmptyUncleHash",
     Coinbase    |-> "KromaProtocolVault",
     Root        |-> newRoot,
     TxHash      |-> EmptyRootHash,
     ReceiptHash |-> EmptyRootHash,
     Bloom       |-> "empty",
     Difficulty  |-> 0,
     Number      |-> header.Number + 1,
     GasLimit    |-> L2GenesisBlockGasLimit,
     GasUsed     |-> 0,
     Time        |-> L2OutputOracleStartingTimestamp,
     Extra       |-> BedrockTransitionBlockExtraData,
     MixDigest   |-> ZeroHash,
     Nonce       |-> 0,
     BaseFee     |-> InitialBaseFee]

\* The MigrationResult for the block with header h.
MigrationResult(h) ==
    [TransitionHeight |-> h.Number, TransitionTimestamp |-> h.Time,
     TransitionBlockHash |-> HeaderHash(h)]

\* Mutant of bedrockConfig: London keeps its legacy height and the legacy
\* parameter block is not copied.
bedrockConfigPartial(cfg, number) ==
    [cfg EXCEPT
        !.ArrowGlacierBlock = <<number>>,
        !.GrayGlacierBlock = <<number>>,
        !.MergeNetsplitBlock = <<number>>,
        !.TerminalTotalDifficulty = <<0>>,
        !.TerminalTotalDifficultyPassed = TRUE,
        !.BedrockBlock = <<number>>,
        !.RegolithTime = <<0>>]

\* migrateHeadAndGenesis: the chain config with the Bedrock forks at `number`.
bedrockConfig(cfg, number) ==
    [cfg EXCEPT
        !.LondonBlock = <<number>>,
        !.ArrowGlacierBlock = <<number>>,
        !.GrayGlacierBlock = <<number>>,
        !.MergeNetsplitBlock = <<number>>,
        !.TerminalTotalDifficulty = <<0>>,
        !.TerminalTotalDifficultyPassed = TRUE,
        !.BedrockBlock = <<number>>,
        !.RegolithTime = <<0>>,
        !.Optimism = cfg.Kroma]

\* The sealing process ends in state `to`: its locals are gone.
SealEnd(to) ==
    /\ pc' = to
    /\ mpt' = EmptyContent
    /\ leaves' = {}
    /\ accountRoot' = <<>>
    /\ bedrock' = <<>>

\* migrate, up to the opening of migrateAccount's iterator over header.Root.
SealStart ==
    /\ pc = "s_idle"
    /\ res' = <<>>
    /\ hist' = [hist EXCEPT !.pipeline = TRUE, !.built = FALSE]
    /\ IF openZkIterator(ReadHeadHeader.Root)
       THEN /\ pc' = "s_migrate"
            /\ leaves' = ZkIterNodes(ZkState)
            /\ mpt' = EmptyContent
            /\ UNCHANGED <<accountRoot, bedrock>>
       ELSE SealEnd("s_failed")
    /\ UNCHANGED <<disk, chain, preimages, db>>
    /\ UNCHANGED fvars
    /\ UNCHANGED gvars

\* stateMigrator.migrateAccount: one leaf of the account zkTrie.
SealMigrateLeaf ==
    /\ pc = "s_migrate"
    /\ \E it \in leaves :
        IF ~it.leaf
        THEN /\ leaves' = leaves \ {it}
             /\ UNCHANGED <<pc, mpt, accountRoot, bedrock, disk, zkNodes>>
        ELSE \E r \in {stateMigrateLeaf(mpt, it.key)} :
                /\ disk' = disk \cup r.wrote
                /\ zkNodes' = overwritten(zkNodes, r.wrote)
                /\ IF r.ok
                   THEN /\ mpt' = r.mpt
                        /\ leaves' = leaves \ {it}
                        /\ UNCHANGED <<pc, accountRoot, bedrock>>
                   ELSE SealEnd("s_dead")
    /\ UNCHANGED <<chain, preimages, db, res, hist, guarded>>
    /\ UNCHANGED fvars

\* stateMigrator.migrateAccount: after the walk, commit and return to migrate.
SealMigrateCommit ==
    /\ pc = "s_migrate"
    /\ leaves = {}
    /\ disk' = committed(disk, mpt)
    /\ accountRoot' = <<commit(mpt)>>
    /\ hist' = [hist EXCEPT !.lastRoot = <<commit(mpt)>>]
    /\ pc' = "s_seal"
    /\ zkNodes' = overwritten(zkNodes, committed(disk, mpt) \ disk)
    /\ UNCHANGED <<mpt, leaves, chain, preimages, db, bedrock, res, guarded>>
    /\ UNCHANGED fvars

\* migrateHeadAndGenesis is called on its own, with the root the last
\* migrateAccount returned.
CallSeal ==
    /\ pc = "s_idle"
    /\ hist.lastRoot # <<>>
    /\ accountRoot' = hist.lastRoot
    /\ res' = <<>>
    /\ hist' = [hist EXCEPT !.pipeline = FALSE, !.built = FALSE]
    /\ pc' = "s_seal"
    /\ UNCHANGED <<mpt, leaves, disk, chain, preimages, db, bedrock>>
    /\ UNCHANGED fvars
    /\ UNCHANGED gvars

\* migrateHeadAndGenesis, from the reads of the chain tip to the transition
\* block it builds in memory.
SealCheck ==
    /\ pc = "s_seal"
    /\ IF db.headHeader \notin DOMAIN db.headers
          \/ Len(BedrockTransitionBlockExtraData) > MaxExtraLength
       THEN SealEnd("s_failed") /\ UNCHANGED <<res, hist>>
       ELSE LET header == db.headers[db.headHeader]
            IN  IF isMigrated(header)
                THEN /\ res' = <<[TransitionHeight    |-> header.Number,
                                  TransitionTimestamp |-> header.Time,
                                  TransitionBlockHash |-> db.headHeader]>>
                     /\ SealEnd("s_done")
                     /\ UNCHANGED hist
                ELSE IF ~canOpen(disk, accountRoot[1])
                THEN SealEnd("s_failed") /\ UNCHANGED <<res, hist>>
                ELSE /\ bedrock' = <<bedrockHeader(header, accountRoot[1])>>
                     /\ hist' = [hist EXCEPT !.built = TRUE, !.base = <<db.headHeader>>,
                                              !.before = db]
                     /\ pc' = "s_td"
                     /\ UNCHANGED <<mpt, leaves, accountRoot, res>>
    /\ UNCHANGED <<disk, chain, preimages, db>>
    /\ UNCHANGED fvars
    /\ UNCHANGED gvars

\* One write of migrateHeadAndGenesis: the store becomes d, the call goes on at `to`.
SealWrite(at, d, to) ==
    /\ pc = at
    /\ db' = d
    /\ pc' = to
    /\ UNCHANGED <<mpt, leaves, disk, chain, preimages, accountRoot, bedrock, res, hist>>
    /\ UNCHANGED fvars
    /\ UNCHANGED gvars

\* TrieDB().Commit(newRoot), which finds the state already in the store, and rawdb.WriteTd
WriteTd ==
    SealWrite("s_td",
              [db EXCEPT !.td = Upd(@, HeaderHash(bedrock[1]), bedrock[1].Difficulty)],
              "s_block")

\* rawdb.WriteBlock: the body, the header and its number.
WriteBlock ==
    SealWrite("s_block",
              [db EXCEPT !.body = Upd(@, HeaderHash(bedrock[1]),
                                      [Transactions |-> <<>>, Uncles |-> <<>>]),
                         !.headers = Upd(@, HeaderHash(bedrock[1]), bedrock[1])],
              "s_receipts")

\* rawdb.WriteReceipts
WriteReceipts ==
    SealWrite("s_receipts",
              [db EXCEPT !.receipts = Upd(@, HeaderHash(bedrock[1]), <<>>)],
              "s_canonical")

\* rawdb.WriteCanonicalHash
WriteCanonicalHash ==
    SealWrite("s_canonical",
              [db EXCEPT !.canonical = Upd(@, bedrock[1].Number, HeaderHash(bedrock[1]))],
              "s_headBlock")

\* rawdb.WriteHeadBlockHash
WriteHeadBlockHash ==
    SealWrite("s_headBlock", [db EXCEPT !.headBlock = HeaderHash(bedrock[1])], "s_headFast")

\* rawdb.WriteHeadFastBlockHash
WriteHeadFastBlockHash ==
    SealWrite("s_headFast", [db EXCEPT !.headFast = HeaderHash(bedrock[1])], "s_headHeader")

\* Mutant of WriteHeadHeaderHash: the write is left out.
WriteHeadHeaderHashSkipped == SealWrite("s_headHeader", db, "s_finalized")

\* rawdb.WriteHeadHeaderHash
WriteHeadHeaderHash ==
    SealWrite("s_headHeader", [db EXCEPT !.headHeader = HeaderHash(bedrock[1])], "s_finalized")

\* rawdb.WriteFinalizedBlockHash
WriteFinalizedBlockHash ==
    SealWrite("s_finalized", [db EXCEPT !.finalized = HeaderHash(bedrock[1])], "s_config")

\* migrateHeadAndGenesis: the chain config is rewritten and the result returned.
WriteChainConfig ==
    /\ pc = "s_config"
    /\ LET genesisHash == ReadCanonicalHash(db, 0)
           cfg         == ReadChainConfig(db, genesisHash)
       IN  IF cfg = <<>> \/ cfg[1].Kroma = <<>>
           THEN SealEnd("s_dead") /\ UNCHANGED <<db, res>>
           ELSE /\ db' = [db EXCEPT !.config =
                              Upd(@, genesisHash, bedrockConfig(cfg[1], bedrock[1].Number))]
                /\ res' = <<MigrationResult(bedrock[1])>>
                /\ SealEnd("s_done")
    /\ UNCHANGED <<disk, chain, preimages, hist>>
    /\ UNCHANGED fvars
    /\ UNCHANGED gvars

\* The sealing process is killed.
SealCrash ==
    /\ pc \in {"s_migrate", "s_seal", "s_td", "s_block", "s_receipts", "s_canonical",
               "s_headBlock", "s_headFast", "s_headHeader", "s_finalized", "s_config"}
    /\ SealEnd("s_dead")
    /\ UNCHANGED <<disk, chain, preimages, db, res, hist>>
    /\ UNCHANGED fvars
    /\ UNCHANGED gvars

\* The process has ended; the operator may run it again on the same store.
SealAgain ==
    /\ pc \in {"s_done", "s_failed", "s_dead"}
    /\ pc' = "s_idle"
    /\ hist' = IF pc = "s_done"
               THEN [hist EXCEPT !.prev = res, !.after = <<db, disk>>,
                                 !.sealed = hist.sealed \/ hist.built]
               ELSE hist
    /\ UNCHANGED <<mpt, leaves, disk, chain, preimages, db, accountRoot, bedrock, res>>
    /\ UNCHANGED fvars
    /\ UNCHANGED gvars


Init ==
    /\ pc = "boot"
    /\ root = <<>>
    /\ mpt = EmptyContent
    /\ leaves = {}
    /\ txs = <<>>
    /\ disk = {}
    /\ ckpt = <<>>
    /\ head = HeadNumber
    /\ chain \in [BlockNumbers -> Blocks]
    /\ preimages \in {FullIndex, EmptyContent}
    /\ bootCkpt = <<>>
    /\ migrated = FALSE
    /\ db = LegacyDb(ZkRoot(RawApplyBlock(BaseState, chain[HeadNumber])), LegacyExtra)
    /\ accountRoot = <<>>
    /\ bedrock = <<>>
    /\ res = <<>>
    /\ hist = NoHistory
    /\ zkNodes = {}
    /\ guarded = {}

Next ==
    \/ Start
    \/ MigrateLeaf
    \/ MigrateCommit
    \/ PutInitial
    \/ Poll
    \/ Trace
    \/ ApplyDelta
    \/ CommitBlock
    \/ PutCheckpoint
    \/ Sleep
    \/ Crash
    \/ Restart
    \/ HeadGrows

Spec == Init /\ [][Next]_vars

\* The follower when nobody kills it: the process ends only by its own panics.
RpcNext ==
    \/ Start
    \/ MigrateLeaf
    \/ MigrateCommit
    \/ PutInitial
    \/ Poll
    \/ Trace
    \/ ApplyDelta
    \/ CommitBlock
    \/ PutCheckpoint
    \/ Sleep
    \/ Restart
    \/ HeadGrows

RpcSpec == Init /\ [][RpcNext]_vars

\* Blocks whose deltas hold only the keys updateAccount knows.
WellFormedBlocks == {BlkEmpty, BlkStorage, BlkTwoTx}

\* The follower on a chain of well-formed blocks, every pre-image indexed.
LiveInit ==
    /\ pc = "boot"
    /\ root = <<>>
    /\ mpt = EmptyContent
    /\ leaves = {}
    /\ txs = <<>>
    /\ disk = {}
    /\ ckpt = <<>>
    /\ head = HeadNumber
    /\ chain \in [BlockNumbers -> WellFormedBlocks]
    /\ preimages = FullIndex
    /\ bootCkpt = <<>>
    /\ migrated = FALSE
    /\ db = LegacyDb(ZkRoot(RawApplyBlock(BaseState, chain[HeadNumber])), LegacyExtra)
    /\ accountRoot = <<>>
    /\ bedrock = <<>>
    /\ res = <<>>
    /\ hist = NoHistory
    /\ zkNodes = {}
    /\ guarded = {}

\* Poll and Trace when the RPC call succeeds.
LivePoll ==
    /\ Poll
    /\ pc' = "dead" => (gate(root[1].Number, head) /\ ~canOpen(disk, root[1].Hash))

LiveTrace ==
    /\ Trace
    /\ pc' # "dead"

\* One step of the follower process: start runs in a single goroutine that
\* is never blocked for good.
FollowerStep ==
    \/ Start
    \/ MigrateLeaf
    \/ MigrateCommit
    \/ PutInitial
    \/ LivePoll
    \/ LiveTrace
    \/ ApplyDelta
    \/ CommitBlock
    \/ PutCheckpoint
    \/ Sleep

LiveNext ==
    \/ FollowerStep
    \/ HeadGrows

\* Weak fairness of every step of the process.  For MigrateLeaf and
\* ApplyDelta it is written out, with the condition under which the step is
\* enabled in place of ENABLED: MigrateLeaf can be taken exactly when the walk
\* has a node left, ApplyDelta exactly when a delta is left to deliver.
FollowerFairness ==
    /\ WF_vars(Start)
    /\ WF_vars(MigrateCommit)
    /\ WF_vars(PutInitial)
    /\ WF_vars(LivePoll)
    /\ WF_vars(LiveTrace)
    /\ WF_vars(CommitBlock)
    /\ WF_vars(PutCheckpoint)
    /\ WF_vars(Sleep)
    /\ ([]<>(~(pc = "migrate" /\ leaves # {})) \/ []<><<MigrateLeaf>>_vars)
    /\ ([]<>(~(pc = "apply" /\ txs # <<>>)) \/ []<><<ApplyDelta>>_vars)

LiveSpec == LiveInit /\ [][LiveNext]_vars /\ FollowerFairness

\* Bytes under migration-root that json.Unmarshal rejects (a torn write).
Unparsable == <<"{">>

\* The follower on a store whose reads can fail and whose checkpoint entry
\* may hold bytes that do not parse.
FaultInit ==
    /\ pc = "boot"
    /\ root = <<>>
    /\ mpt = EmptyContent
    /\ leaves = {}
    /\ txs = <<>>
    /\ disk = {}
    /\ ckpt \in {<<>>, Unparsable}
    /\ head = HeadNumber
    /\ \E b \in Blocks : chain = [n \in BlockNumbers |-> b]
    /\ preimages = FullIndex
    /\ bootCkpt = <<>>
    /\ migrated = FALSE
    /\ db = LegacyDb(ZkRoot(RawApplyBlock(BaseState, chain[HeadNumber])), LegacyExtra)
    /\ accountRoot = <<>>
    /\ bedrock = <<>>
    /\ res = <<>>
    /\ hist = NoHistory
    /\ zkNodes = {}
    /\ guarded = {}

FaultNext ==
    \/ Start
    \/ StartReadFails
    \/ MigrateLeaf
    \/ MigrateCommit
    \/ PutInitial
    \/ Poll
    \/ Trace
    \/ ApplyDelta
    \/ CommitBlock
    \/ PutCheckpoint
    \/ Sleep
    \/ Crash
    \/ Restart
    \/ HeadGrows

FaultSpec == FaultInit /\ [][FaultNext]_vars

\* The store the sealing program is run on: a legacy database, or one whose
\* head header already carries the sentinel.
SealInit ==
    /\ pc = "s_idle"
    /\ root = <<>>
    /\ mpt = EmptyContent
    /\ leaves = {}
    /\ txs = <<>>
    /\ disk = {}
    /\ ckpt = <<>>
    /\ head = HeadNumber
    /\ \E b \in Blocks : chain = [n \in BlockNumbers |-> b]
    /\ preimages \in {FullIndex, EmptyContent}
    /\ bootCkpt = <<>>
    /\ migrated = FALSE
    /\ \E extra \in {LegacyExtra, BedrockTransitionBlockExtraData} :
          db = LegacyDb(ZkRoot(RawApplyBlock(BaseState, chain[HeadNumber])), extra)
    /\ accountRoot = <<>>
    /\ bedrock = <<>>
    /\ res = <<>>
    /\ hist = NoHistory
    /\ zkNodes = {}
    /\ guarded = {}

SealNext ==
    \/ SealStart
    \/ SealMigrateLeaf
    \/ SealMigrateCommit
    \/ CallSeal
    \/ SealCheck
    \/ WriteTd
    \/ WriteBlock
    \/ WriteReceipts
    \/ WriteCanonicalHash
    \/ WriteHeadBlockHash
    \/ WriteHeadFastBlockHash
    \/ WriteHeadHeaderHash
    \/ WriteFinalizedBlockHash
    \/ WriteChainConfig
    \/ SealCrash
    \/ SealAgain

SealSpec == SealInit /\ [][SealNext]_vars

\* The hashes of the nodes of the account MPT `content` and of the storage
\* tries below it.
NodeHashes(content) ==
    {n.hash : n \in MptNodes(content)}
    \cup UNION {{n.hash : n \in MptNodes(content[a].Root.of)} : a \in DOMAIN content}

\* The initial transformation, by the follower binary or by the sealing
\* binary, on a store that may hold a zkTrie node at the hash of a node of
\* the MPT to be built.
MigrateInit ==
    /\ pc \in {"boot", "s_idle"}
    /\ root = <<>>
    /\ mpt = EmptyContent
    /\ leaves = {}
    /\ txs = <<>>
    /\ disk = {}
    /\ ckpt = <<>>
    /\ head = HeadNumber
    /\ \E b \in Blocks : chain = [n \in BlockNumbers |-> b]
    /\ preimages \in {FullIndex, EmptyContent}
    /\ bootCkpt = <<>>
    /\ migrated = FALSE
    /\ \E base \in {BaseState, DevnetState} :
          db = LegacyDb(ZkRoot(RawApplyBlock(base, chain[HeadNumber])), LegacyExtra)
    /\ accountRoot = <<>>
    /\ bedrock = <<>>
    /\ res = <<>>
    /\ hist = NoHistory
    /\ zkNodes \in {{}} \cup {{h} : h \in NodeHashes(TrueMpt(db.headers[db.headHeader].Root.of))}
    /\ guarded = {}

MigrateNext ==
    \/ Start
    \/ MigrateLeaf
    \/ MigrateCommit
    \/ PutInitial
    \/ Crash
    \/ Restart
    \/ SealStart
    \/ SealMigrateLeaf
    \/ SealMigrateCommit
    \/ SealCrash
    \/ SealAgain

MigrateSpec == MigrateInit /\ [][MigrateNext]_vars

\* The key hashes the tries of the chain can hold.
IndexKeys == {ZkSecureHash(x) : x \in {Addr1, Addr2, Slot1, Slot2}}

\* The preimage index of the trie database is whatever the store holds: for
\* each key hash no entry, the pre-image, or bytes that are not its pre-image.
Indexes ==
    UNION {{[h \in S |-> IF h \in W THEN (IF h.of = Addr1 THEN Addr2 ELSE Addr1) ELSE h.of]
              : W \in SUBSET S} : S \in SUBSET IndexKeys}

\* The initial transformation of either binary over any such index.
PreimageInit ==
    /\ pc \in {"boot", "s_idle"}
    /\ root = <<>>
    /\ mpt = EmptyContent
    /\ leaves = {}
    /\ txs = <<>>
    /\ disk = {}
    /\ ckpt = <<>>
    /\ head = HeadNumber
    /\ \E b \in Blocks : chain = [n \in BlockNumbers |-> b]
    /\ preimages \in Indexes
    /\ bootCkpt = <<>>
    /\ migrated = FALSE
    /\ db = LegacyDb(ZkRoot(RawApplyBlock(BaseState, chain[HeadNumber])), LegacyExtra)
    /\ accountRoot = <<>>
    /\ bedrock = <<>>
    /\ res = <<>>
    /\ hist = NoHistory
    /\ zkNodes = {}
    /\ guarded = {}

PreimageSpec == PreimageInit /\ [][MigrateNext]_vars




\* ------------------------------------------------------------- properties

\* The stored checkpoint's fields (ckpt # <<>>).
Persisted == [Hash |-> ckpt[2], Number |-> ckpt[3]]

Running == {"loop", "sleep", "trace", "apply", "put"}

Openable(d, h) ==
    /\ canOpen(d, h)
    /\ \A a \in DOMAIN h.of : canOpen(d, h.of[a].Root)

\* C2 (commit before checkpoint): in every state, a crashed one included, the
\* stored checkpoint's root and the storage roots of its accounts are in the
\* store; and the step that writes the checkpoint writes no trie node, writes
\* a root committed before it, and ends the iteration.
C2_CommitBeforeCheckpoint ==
    /\ [](ckpt # <<>> => Openable(disk, Persisted.Hash))
    /\ [][ckpt' # ckpt => (disk' = disk /\ ckpt'[2] \in disk /\ pc' = "loop")]_vars

\* C2 witness: the process died after the commit of an iteration and before
\* its checkpoint write; the store holds a root newer than the checkpoint's.
C2_Witness ==
    /\ pc = "dead"
    /\ ckpt # <<>>
    /\ Persisted.Number > HeadNumber
    /\ \E h \in disk : h # Persisted.Hash /\ DOMAIN h.of \subseteq Addrs /\ h.of # EmptyContent
                       /\ Addr2 \in DOMAIN h.of /\ Addr2 \notin DOMAIN Persisted.Hash.of

RECURSIVE TrueState(_)
TrueState(n) ==
    IF n < HeadNumber THEN BaseState
    ELSE RawApplyBlock(TrueState(n - 1), chain[n])

\* C4 (the checkpoint pairs a root with the block whose post-state it is): the
\* stored hash is the MPT root of the post-state of block `number`.
C4_RootOfBlockNumber ==
    ckpt # <<>> =>
        /\ Persisted.Number \in BlockNumbers
        /\ Persisted.Hash = MptHash(TrueMpt(TrueState(Persisted.Number)))

C6_FollowerGate ==
    /\ [][(pc = "loop" /\ pc' \notin {"loop", "dead"}) =>
             /\ (pc' = "trace" <=> root[1].Number <= head)
             /\ (pc' = "sleep" <=> root[1].Number > head)]_vars
    /\ [][(pc' = "sleep" \/ pc = "sleep") =>
             (disk' = disk /\ ckpt' = ckpt /\ txs' = <<>> /\ txs = <<>>)]_vars
    /\ [][(pc = "sleep" /\ pc' # pc) => pc' \in {"loop", "dead"}]_vars
    /\ [](pc \in {"trace", "apply"} => root[1].Number <= head)
    /\ [](pc = "put" => root[1].Number <= head + 1)

\* C6 witness: the follower, having traced up to the head, sleeps with its
\* cursor one above the head.
C6_Witness ==
    /\ pc = "sleep"
    /\ ckpt # <<>>
    /\ root[1].Number = head + 1
    /\ root[1].Number > HeadNumber

\* ------------------------------------------------------ sealing properties

\* The sentinel is on the head header.
HeadSealed ==
    /\ db.headHeader \in DOMAIN db.headers
    /\ db.headers[db.headHeader].Extra = BedrockTransitionBlockExtraData

\* C7: idempotent sealing.  A call of migrateHeadAndGenesis that finds the
\* sentinel on the head header returns the head's own number, time and hash
\* and writes nothing; and once a call has returned a result, a later call
\* returns the same result and leaves the store as the earlier one left it.
C7_IdempotentSealing ==
    /\ [][(pc = "s_seal" /\ HeadSealed) =>
             /\ db' = db
             /\ disk' = disk
             /\ pc' \in {"s_done", "s_dead"}
             /\ pc' = "s_done" =>
                    res' = <<[TransitionHeight    |-> db.headers[db.headHeader].Number,
                              TransitionTimestamp |-> db.headers[db.headHeader].Time,
                              TransitionBlockHash |-> db.headHeader]>>]_vars
    /\ []((pc = "s_done" /\ hist.prev # <<>>) =>
             (res = hist.prev /\ <<db, disk>> = hist.after))

\* A second call of the sealer alone, after the call that built the block.
C7_Witness ==
    /\ pc = "s_done"
    /\ hist.prev # <<>>
    /\ hist.sealed
    /\ ~hist.built
    /\ ~hist.pipeline
    /\ res = hist.prev

\* C8: idempotent full pipeline.  A run of migrate on a store that an earlier
\* run sealed ends with a result whose block hash is the earlier one's, and
\* with no header added.
C8_IdempotentPipeline ==
    (hist.pipeline /\ hist.sealed /\ pc \in {"s_done", "s_failed"}) =>
        /\ pc = "s_done"
        /\ res[1].TransitionBlockHash = hist.prev[1].TransitionBlockHash
        /\ DOMAIN db.headers = DOMAIN hist.after[1].headers

\* C9: transition block shape.  The block T the sealer builds on a head H
\* without the sentinel has H's number plus one, H's hash as parent, the
\* sentinel as extra-data, no transactions, uncles or receipts, and the
\* result returned is T's number, time and hash.
C9_TransitionBlockShape ==
    /\ [](bedrock # <<>> =>
            LET T == bedrock[1]
                H == db.headers[hist.base[1]]
            IN  /\ H.Extra # BedrockTransitionBlockExtraData
                /\ T.Number = H.Number + 1
                /\ T.ParentHash = hist.base[1]
                /\ T.Extra = BedrockTransitionBlockExtraData)
    /\ []((pc = "s_done" /\ hist.built) =>
            LET th == res[1].TransitionBlockHash
                T  == db.headers[th]
                H  == db.headers[hist.base[1]]
            IN  /\ th = HeaderHash(T)
                /\ res[1].TransitionHeight = T.Number
                /\ res[1].TransitionTimestamp = T.Time
                /\ T.Number = H.Number + 1
                /\ T.ParentHash = hist.base[1]
                /\ T.Extra = BedrockTransitionBlockExtraData
                /\ db.body[th] = [Transactions |-> <<>>, Uncles |-> <<>>]
                /\ db.receipts[th] = <<>>)

\* A call that built the block has returned.
C9_Witness ==
    /\ pc = "s_done"
    /\ hist.built
    /\ res # <<>>
    /\ res[1].TransitionHeight = HeadNumber + 1

\* C10: after a sealing call that built a block T returns, the canonical hash
\* at T's number and the head-block, head-fast-block, head-header and
\* finalized-block markers are T's hash, and the chain head read afterwards
\* is T.
C10_HeadMarkers ==
    /\ []((pc = "s_done" /\ hist.built) =>
            LET th == res[1].TransitionBlockHash
            IN  /\ db.canonical[res[1].TransitionHeight] = th
                /\ db.headBlock = th
                /\ db.headFast = th
                /\ db.headHeader = th
                /\ db.finalized = th
                /\ HeaderHash(ReadHeadHeader) = th)
    /\ [](hist.sealed =>
            /\ db.headHeader = hist.prev[1].TransitionBlockHash
            /\ ReadHeadHeader.Extra = BedrockTransitionBlockExtraData)

\* The head markers have moved from H to T when the building call returns.
C10_Witness ==
    /\ pc = "s_done"
    /\ hist.built
    /\ db.headHeader = res[1].TransitionBlockHash
    /\ db.headHeader # hist.base[1]
    /\ db.finalized = db.headHeader

\* C11: after a sealing call that built a block T returns, the chain config
\* stored at the genesis hash has the London, ArrowGlacier, GrayGlacier,
\* MergeNetsplit and Bedrock heights at T's number, a terminal total
\* difficulty of zero marked passed, and an Optimism parameter block holding
\* the three parameters of the legacy Kroma block.
C11_ChainConfig ==
    (pc = "s_done" /\ hist.built) =>
        LET n   == res[1].TransitionHeight
            cfg == ReadChainConfig(db, ReadCanonicalHash(db, 0))
            old == ReadChainConfig(hist.before, ReadCanonicalHash(hist.before, 0))
        IN  /\ n = db.headers[hist.base[1]].Number + 1
            /\ cfg # <<>>
            /\ cfg[1].LondonBlock = <<n>>
            /\ cfg[1].ArrowGlacierBlock = <<n>>
            /\ cfg[1].GrayGlacierBlock = <<n>>
            /\ cfg[1].MergeNetsplitBlock = <<n>>
            /\ cfg[1].BedrockBlock = <<n>>
            /\ cfg[1].TerminalTotalDifficulty = <<0>>
            /\ cfg[1].TerminalTotalDifficultyPassed
            /\ cfg[1].Optimism # <<>>
            /\ cfg[1].Optimism = old[1].Kroma
            /\ cfg[1].Optimism[1].EIP1559Denominator = LegacyConfig.Kroma[1].EIP1559Denominator
            /\ cfg[1].Optimism[1].EIP1559Elasticity = LegacyConfig.Kroma[1].EIP1559Elasticity
            /\ cfg[1].Optimism[1].EIP1559DenominatorCanyon =
                   LegacyConfig.Kroma[1].EIP1559DenominatorCanyon

\* The building call has returned and the config has moved off its legacy heights.
C11_Witness ==
    /\ pc = "s_done"
    /\ hist.built
    /\ ReadChainConfig(db, ReadCanonicalHash(db, 0)) # <<LegacyConfig>>
    /\ ReadChainConfig(hist.before, ReadCanonicalHash(hist.before, 0)) = <<LegacyConfig>>

\* ------------------------------------------------ transformation properties

\* C12: hash-collision guard detection.  No trie gets through
\* checkHashCollision while the store holds, at the hash of one of the
\* trie's nodes, bytes that decode as a zkTrie node.
C12_GuardDetects ==
    [][\A t \in guarded' \ guarded :
          \A n \in MptNodes(t) : n.hash \notin zkNodes]_vars

\* C13: guard coverage.  In the initial transformation, of either binary,
\* every trie written into the store has gone through checkHashCollision
\* before.
C13_GuardCoverage ==
    [][(pc \in {"migrate", "s_migrate"}) =>
          (\A h \in disk' \ disk : h.of \in guarded')]_vars

\* C14: account leaf coverage.  Every leaf the account iterator delivers
\* writes exactly one account, under the address resolved from its key; an
\* interior node writes nothing; and the committed account MPT holds as many
\* accounts as the source zkTrie has leaves.
C14_AccountLeafCoverage ==
    /\ [][((pc = "migrate" /\ pc' = "migrate") \/ (pc = "s_migrate" /\ pc' = "s_migrate")) =>
             \A it \in leaves \ leaves' :
                IF it.leaf
                THEN /\ BytesToAddress(it.key.of) \notin DOMAIN mpt
                     /\ DOMAIN mpt' = DOMAIN mpt \cup {BytesToAddress(it.key.of)}
                     /\ \A a \in DOMAIN mpt : mpt'[a] = mpt[a]
                ELSE mpt' = mpt /\ disk' = disk]_vars
    /\ [](pc = "put_initial" =>
             /\ root[1].Hash \in disk
             /\ DOMAIN root[1].Hash.of = DOMAIN ZkState
             /\ Cardinality(DOMAIN root[1].Hash.of) = Cardinality(ZkLeafKeys(ZkState)))
    /\ [](pc = "s_seal" /\ hist.pipeline =>
             /\ accountRoot[1] \in disk
             /\ DOMAIN accountRoot[1].of = DOMAIN ZkState
             /\ Cardinality(DOMAIN accountRoot[1].of) = Cardinality(ZkLeafKeys(ZkState)))

\* Both binaries have committed an account MPT of two accounts.
C14_Witness ==
    /\ pc \in {"put_initial", "s_seal"}
    /\ Cardinality(DOMAIN ZkState) = 2
    /\ Cardinality(DOMAIN mpt) = 2
    /\ MptHash(mpt) \in disk

\* C15: storage leaf coverage.  For every account, whatever its address, a
\* leaf step of migrateAccount that goes on has written one entry per leaf
\* of the account's source storage trie, under the leaf's slot: no leaf is
\* skipped, a missing slot pre-image ends the migration.
C15_StorageLeafCoverage ==
    [][(pc = "migrate" /\ pc' = "migrate") =>
          \A it \in leaves \ leaves' :
             it.leaf =>
                LET a == BytesToAddress(it.key.of)
                IN  /\ a \in DOMAIN mpt'
                    /\ DOMAIN mpt'[a].Root.of = DOMAIN ZkState[it.key.of].Storage
                    /\ Cardinality(DOMAIN mpt'[a].Root.of) =
                          Cardinality(ZkLeafKeys(ZkState[it.key.of].Storage))]_vars

\* C16: empty-storage correspondence.  In both migrators, the storage root
\* written for a migrated account is the empty MPT root if and only if the
\* account's source storage root is the empty zkTrie root; for the empty
\* source root nothing is written to the store.
C16_EmptyStorage ==
    [][(pc \in {"migrate", "s_migrate"} /\ pc' = pc) =>
          \A it \in leaves \ leaves' :
             it.leaf =>
                LET a   == BytesToAddress(it.key.of)
                    src == NewStateAccount(ZkState[it.key.of]).Root
                IN  /\ a \in DOMAIN mpt'
                    /\ (mpt'[a].Root = EmptyRootHash) <=> (src = EmptyZkRoot)
                    /\ (src = EmptyZkRoot) => disk' = disk]_vars

\* C17: storage value encoding in the transformer.  In both migrators the
\* value written to the storage MPT for a migrated storage leaf is
\* RLP(trimLeadingZeros(leafValue)).
C17_TransformerEncoding ==
    [][(pc \in {"migrate", "s_migrate"} /\ pc' = pc) =>
          \A it \in leaves \ leaves' :
             it.leaf =>
                LET a   == BytesToAddress(it.key.of)
                    src == ZkState[it.key.of].Storage
                IN  /\ a \in DOMAIN mpt'
                    /\ \A slot \in DOMAIN mpt'[a].Root.of :
                          /\ slot \in DOMAIN src
                          /\ mpt'[a].Root.of[slot] =
                                RlpEncodeBytes(TrimLeftZeroes(src[slot]))]_vars

\* C18: storage delta encoding in the follower.  Applying the storage delta
\* entry (slotHex, valueHex) of an address writes, at the slot the text
\* slotHex denotes, RLP(trimLeadingZeros(val)) where val is the byte value
\* the text valueHex denotes: the entry the transformer writes for a zkTrie
\* leaf holding that value.
C18_DeltaEncoding ==
    [][(pc = "apply" /\ pc' = "apply" /\ txs # <<>>) =>
          \A a \in DOMAIN Head(txs) :
             (/\ txs' = Remaining(<<Drop(Head(txs), a)>> \o Tail(txs))
              /\ "storage" \in DOMAIN Head(txs)[a]) =>
                LET address == HexToAddress(a)
                    storage == Head(txs)[a]["storage"]
                IN  /\ address \in DOMAIN mpt'
                    /\ \A k \in DOMAIN storage :
                          /\ HexToHash(k) \in DOMAIN mpt'[address].Root.of
                          /\ mpt'[address].Root.of[HexToHash(k)] =
                                RlpEncodeBytes(TrimLeftZeroes(FromHex(storage[k])))
                          /\ mpt'[address].Root.of[HexToHash(k)] =
                                encodeToRlp(FromHex(storage[k]))]_vars

\* C19: delta completeness.  While the transactions still to be applied hold,
\* for some address, a delta with a key other than balance, nonce and
\* storage, the iteration cannot complete: it goes on within the block or
\* the process ends, the persisted checkpoint keeps its value, no account
\* root is committed, and the account of such a delta in the current
\* transaction is not updated in the account MPT.
C19_DeltaCompleteness ==
    [][(/\ pc = "apply"
        /\ \E i \in 1..Len(txs) : \E a \in DOMAIN txs[i] :
              DOMAIN txs[i][a] \ {"balance", "nonce", "storage"} # {}) =>
          /\ pc' \in {"apply", "dead"}
          /\ ckpt' = ckpt
          /\ \A h \in disk' \ disk : \A k \in DOMAIN h.of : Len(k) # AddressLength
          /\ pc' = "apply" =>
                /\ root' = root
                /\ \E i \in 1..Len(txs') : \E a \in DOMAIN txs'[i] :
                      DOMAIN txs'[i][a] \ {"balance", "nonce", "storage"} # {}
                /\ \A a \in DOMAIN Head(txs) :
                      DOMAIN Head(txs)[a] \ {"balance", "nonce", "storage"} # {} =>
                         LET address == HexToAddress(a)
                         IN  /\ (address \in DOMAIN mpt') = (address \in DOMAIN mpt)
                             /\ address \in DOMAIN mpt => mpt'[address] = mpt[address]]_vars

\* The follower died within the block BlkCode: the storage delta of Addr1 was
\* applied and its storage trie committed, the delta of Addr2 with its "code"
\* key was not, no account root holds Addr2 and the checkpoint still names
\* that block.
C19_Witness ==
    /\ pc = "dead"
    /\ jsonUnmarshal(ckpt) # <<>>
    /\ jsonUnmarshal(ckpt)[1].Number \in DOMAIN chain
    /\ chain[jsonUnmarshal(ckpt)[1].Number] = BlkCode
    /\ \E h \in disk :
          /\ Slot2 \in DOMAIN h.of
          /\ h.of[Slot2] = encodeToRlp(StringBytes(HexEncode(ValBEEF)))
    /\ \A h \in disk : Addr2 \notin DOMAIN h.of

\* C20: transient RPC failures are retried.  With nobody killing the process,
\* a step of eth_blockNumber (on a root the store can open) or of
\* debug_traceBlockByNumber never ends the follower: it leaves the process
\* alive, with its cursor and the persisted checkpoint unchanged.
C20_RpcRetry ==
    [][((pc = "loop" /\ canOpen(disk, root[1].Hash)) \/ pc = "trace") =>
          /\ pc' # "dead"
          /\ root' = root
          /\ ckpt' = ckpt]_vars

\* C21: pre-image resolution order.  In both binaries readPreimage returns
\* the genesis-address entry whenever the key hash is in the genesis address
\* map, whatever the index holds; otherwise the genesis-storage entry
\* whenever the key hash is in the genesis storage map; otherwise the entry
\* of the preimage index; and it reports missing only when none of the three
\* yields a result.
C21_ResolutionOrder ==
    \A h \in IndexKeys :
       \A r \in {readPreimage(h), stateReadPreimage(h)} :
          LET indexed == ZkSecureHash(zkdbPreimage(h)) = h
          IN  /\ h \in DOMAIN GenesisAccount => r = [ok |-> TRUE, pre |-> GenesisAccount[h]]
              /\ (h \notin DOMAIN GenesisAccount /\ h \in DOMAIN GenesisStorage)
                    => r = [ok |-> TRUE, pre |-> GenesisStorage[h]]
              /\ (h \notin DOMAIN GenesisAccount /\ h \notin DOMAIN GenesisStorage /\ indexed)
                    => r = [ok |-> TRUE, pre |-> preimages[h]]
              /\ ~r.ok <=> (/\ h \notin DOMAIN GenesisAccount
                            /\ h \notin DOMAIN GenesisStorage
                            /\ ~indexed)

\* Both accounts were migrated, Addr1 through the genesis address map although
\* the index holds other bytes for its key, Addr2 through the index.
C21_Witness ==
    /\ pc \in {"migrate", "s_migrate"}
    /\ {Addr1, Addr2} \subseteq DOMAIN mpt
    /\ ZkSecureHash(Addr1) \in DOMAIN preimages
    /\ preimages[ZkSecureHash(Addr1)] # Addr1
    /\ ZkSecureHash(Addr2) \notin DOMAIN GenesisAccount

\* C22: pre-image round trip.  Every byte string readPreimage returns from
\* the preimage index for key hash h hashes back to h; an index entry whose
\* re-hash differs from h is never returned, the key is reported as missing.
C22_RoundTrip ==
    /\ \A h \in IndexKeys \ (DOMAIN GenesisAccount \cup DOMAIN GenesisStorage) :
          /\ readPreimage(h).ok => ZkSecureHash(readPreimage(h).pre) = h
          /\ (h \in DOMAIN preimages /\ ZkSecureHash(preimages[h]) # h)
                => ~readPreimage(h).ok
    /\ pc = "migrate" =>
          \A a \in DOMAIN mpt :
             ZkSecureHash(a) \in DOMAIN GenesisAccount
                \/ (ZkSecureHash(a) \in DOMAIN preimages /\ preimages[ZkSecureHash(a)] = a)

\* The follower met the leaf of Addr2 with an index entry that is not its
\* pre-image: the process ended and nothing was written.
C22_Witness ==
    /\ pc = "dead"
    /\ Addr2 \in DOMAIN ZkState
    /\ ZkSecureHash(Addr2) \in DOMAIN preimages
    /\ preimages[ZkSecureHash(Addr2)] # Addr2
    /\ ckpt = <<>>
    /\ disk = {}

\* C23: transformer failure semantics.  An unresolved pre-image aborts the
\* initial transformation: whenever the transformation has come to its end
\* (the follower is about to write, or has written, the checkpoint; the
\* sealing binary has its state root and goes on to seal), every account
\* key and every storage key of the source state had a pre-image.
C23_FailureSemantics ==
    (ckpt # <<>> \/ pc \in {"put_initial", "s_seal"}) =>
       \A a \in DOMAIN ZkState :
          /\ readPreimage(ZkSecureHash(a)).ok
          /\ \A slot \in DOMAIN ZkState[a].Storage : readPreimage(ZkSecureHash(slot)).ok

\* C24: no error is silently swallowed.  A start that finds a checkpoint
\* entry in the store never treats it as absent: whether the read fails or
\* the bytes do not parse, the initial migration is not run again and the
\* stored checkpoint is not replaced by the one of a new initial migration.
C24_NoSwallowedError ==
    [][(pc = "boot" /\ ckpt # <<>>) => pc' # "migrate"]_vars

\* C25: follower progress.  With RPC calls that succeed, well-formed deltas
\* and a process that keeps running, the follower never ends; for every
\* block n with checkpoint.number <= n <= head the persisted checkpoint
\* number eventually exceeds n; and once checkpoint.number = head + 1 the
\* follower stays caught up (polling and sleeping, checkpoint unchanged)
\* until the head grows.
C25_FollowerProgress ==
    /\ [](pc # "dead")
    /\ \A n \in BlockNumbers :
          (/\ jsonUnmarshal(ckpt) # <<>>
           /\ jsonUnmarshal(ckpt)[1].Number <= n
           /\ n <= head)
             ~> (jsonUnmarshal(ckpt) # <<>> /\ jsonUnmarshal(ckpt)[1].Number > n)
    /\ [][(/\ jsonUnmarshal(ckpt) # <<>>
            /\ jsonUnmarshal(ckpt)[1].Number = head + 1
            /\ pc \in {"loop", "sleep"}
            /\ head' = head) =>
              (pc' \in {"loop", "sleep"} /\ ckpt' = ckpt /\ root' = root)]_vars

\* The follower has followed the chain to its last block and sleeps.
C25_Witness ==
    /\ pc = "sleep"
    /\ head = MaxHead
    /\ jsonUnmarshal(ckpt) # <<>>
    /\ jsonUnmarshal(ckpt)[1].Number = head + 1

\* C26: delta application frame.  The account the follower writes for the
\* delta of an address has the balance of the delta when the delta has a
\* balance key and the prior balance otherwise, the same for the nonce, the
\* prior storage root when the delta has no storage key, and always the
\* prior code hash; the prior account of an address absent from the MPT is
\* the fresh empty account (nonce 0, balance 0, empty storage root, empty
\* code hash).
C26_DeltaFrame ==
    [][(pc = "apply" /\ pc' = "apply" /\ txs # <<>>) =>
          \A a \in DOMAIN Head(txs) :
             txs' = Remaining(<<Drop(Head(txs), a)>> \o Tail(txs)) =>
                LET address == HexToAddress(a)
                    delta   == Head(txs)[a]
                    prior   == IF address \in DOMAIN mpt THEN mpt[address]
                               ELSE [Nonce |-> 0, Balance |-> 0,
                                     Root |-> MptHash(<<>>), CodeHash |-> "nocode"]
                IN  /\ address \in DOMAIN mpt'
                    /\ mpt'[address].Balance =
                          IF "balance" \in DOMAIN delta
                          THEN HexValue(TrimPrefix0x(delta["balance"]))
                          ELSE prior.Balance
                    /\ mpt'[address].Nonce =
                          IF "nonce" \in DOMAIN delta THEN delta["nonce"] ELSE prior.Nonce
                    /\ "storage" \notin DOMAIN delta => mpt'[address].Root = prior.Root
                    /\ mpt'[address].CodeHash = prior.CodeHash
                    /\ \A other \in DOMAIN mpt \ {address} :
                          other \in DOMAIN mpt' /\ mpt'[other] = mpt[other]]_vars

\* The delta of Addr2, an address the MPT did not hold, was applied: the
\* account has the nonce and balance of the delta on top of the empty account.
C26_Witness ==
    /\ pc = "apply"
    /\ Addr2 \in DOMAIN mpt
    /\ mpt[Addr2] = [Nonce |-> 1, Balance |-> 1, Root |-> EmptyRootHash, CodeHash |-> EmptyCodeHash]
    /\ root # <<>>
    /\ Addr2 \notin DOMAIN root[1].Hash.of

\* C27 (as the claim has it): within one traced block the per-address deltas
\* commute; applied in any order, two deltas of different transactions for
\* the same address included, they yield the same committed state root.
C27_DeltasCommute ==
    (pc = "apply" /\ txs = Remaining(chain[root[1].Number])) =>
       \A o1, o2 \in Orders(Deltas(txs)) :
          LET r1 == applyInOrder(mpt, disk, txs, o1, root[1].Hash)
              r2 == applyInOrder(mpt, disk, txs, o2, root[1].Hash)
          IN  (r1.ok /\ r2.ok) => r1.root = r2.root

\* C27 (corrected): within one traced block the deltas of different
\* addresses commute; every order that keeps the deltas of one address in
\* the order of their transactions yields the same committed state root.
C27_DistinctAddressesCommute ==
    (pc = "apply" /\ txs = Remaining(chain[root[1].Number])) =>
       LET keeps(o) == \A i, j \in DOMAIN o :
                          (i < j /\ HexToAddress(o[i][2]) = HexToAddress(o[j][2]))
                             => o[i][1] < o[j][1]
           good == {o \in Orders(Deltas(txs)) : keeps(o)}
       IN  \A o1, o2 \in good :
              LET r1 == applyInOrder(mpt, disk, txs, o1, root[1].Hash)
                  r2 == applyInOrder(mpt, disk, txs, o2, root[1].Hash)
              IN  (r1.ok /\ r2.ok) => r1.root = r2.root

\* A block with deltas of two addresses has been traced, its deltas can be
\* applied in more than one order that keeps each address's own order, and
\* one of them is applied without a panic.
C27_Witness ==
    /\ pc = "apply"
    /\ txs = Remaining(chain[root[1].Number])
    /\ txs = BlkTwoTx
    /\ \E o \in Orders(Deltas(txs)) :
          /\ o[1][1] = 2
          /\ HexToAddress(o[1][2]) = Addr2
          /\ o[2][1] = 1
          /\ applyInOrder(mpt, disk, txs, o, root[1].Hash).ok

\* C28: all-or-nothing follower iteration.  An iteration that aborts leaves
\* the backing store as it was: while the traced block still holds a delta
\* with a key updateAccount does not know (such an iteration never completes),
\* no step of the iteration writes a trie node to the store.
C28_AllOrNothing ==
    [][(/\ pc = "apply"
        /\ \E i \in 1..Len(txs) : \E a \in DOMAIN txs[i] :
              DOMAIN txs[i][a] \ {"balance", "nonce", "storage"} # {}) =>
          disk' = disk]_vars

\* C29: sealed implies configured.  Whenever a call of migrateHeadAndGenesis
\* has returned a MigrationResult, through the build branch or through the
\* sentinel branch, the chain config stored at the genesis hash has the
\* Bedrock fork and the legacy forks at the returned TransitionHeight.  The
\* stores looked at are those whose head is a transition block this program
\* wrote (its number is one above the legacy head).
C29_SealedImpliesConfigured ==
    (pc = "s_done" /\ res # <<>> /\ res[1].TransitionHeight = HeadNumber + 1) =>
        LET n   == res[1].TransitionHeight
            cfg == ReadChainConfig(db, ReadCanonicalHash(db, 0))
        IN  /\ cfg # <<>>
            /\ cfg[1].BedrockBlock = <<n>>
            /\ cfg[1].LondonBlock = <<n>>
            /\ cfg[1].ArrowGlacierBlock = <<n>>
            /\ cfg[1].GrayGlacierBlock = <<n>>
            /\ cfg[1].MergeNetsplitBlock = <<n>>

====
